---- MODULE Spec2Model ----
(***************************************************************************)
(* Reconciliation engine of the AWS resources app: the onSync / onDrain    *)
(* handlers built by createCloudControlHandlers (utils/cloudControl.ts),   *)
(* with the helpers they call: calculateConfigHash, deepEqual,             *)
(* getDriftedFields, generateJsonPatch and getNonUpdatableProperties.      *)
(*                                                                         *)
(* JSON values are records [kind, num, ents]: kind is the JavaScript kind  *)
(* of the value, num the payload of a number, ents the ordered entries     *)
(* [k, v] of an object or an array (an array's keys are "0", "1", ...).    *)
(***************************************************************************)
EXTENDS Integers, Sequences, FiniteSets, TLC

(* ---------------------------------------------------------------------- *)
(* Bounds                                                                  *)
(* ---------------------------------------------------------------------- *)
MaxToken == 2
MaxEdits == 1
MaxDrifts == 1

(* ---------------------------------------------------------------------- *)
(* JSON values                                                             *)
(* ---------------------------------------------------------------------- *)
Undefined == [kind |-> "undefined", num |-> 0, ents |-> <<>>]
Null == [kind |-> "null", num |-> 0, ents |-> <<>>]
Num(n) == [kind |-> "number", num |-> n, ents |-> <<>>]
Ent(key, val) == [k |-> key, v |-> val]
Obj(es) == [kind |-> "object", num |-> 0, ents |-> es]
IdxKey(i) == CASE i = 1 -> "0" [] i = 2 -> "1" [] OTHER -> "2"
Arr(vs) == [kind |-> "array", num |-> 0, ents |-> [i \in 1..Len(vs) |-> Ent(IdxKey(i), vs[i])]]

\* `x === undefined`
IsUndef(a) == a.kind = "undefined"
\* JavaScript `typeof`
TypeOf(a) == CASE a.kind = "number" -> "number"
               [] a.kind = "undefined" -> "undefined"
               [] OTHER -> "object"
\* `x == null`: true of null and of undefined
IsNullish(a) == a.kind \in {"null", "undefined"}
IsArray(a) == a.kind = "array"
\* `a === b`: value identity for primitives; two distinct parsed objects are
\* never the same reference
StrictEq(a, b) == /\ a.kind = b.kind
                  /\ a.kind \in {"number", "null", "undefined"}
                  /\ a.num = b.num

\* Object.keys(o), in the object's own order
ObjectKeys(o) == [i \in 1..Len(o.ents) |-> o.ents[i].k]
Range(s) == {s[i] : i \in 1..Len(s)}
Includes(s, x) == x \in Range(s)
HasKey(o, key) == \E i \in 1..Len(o.ents) : o.ents[i].k = key
\* o?.[key]
Get(o, key) == IF HasKey(o, key)
               THEN o.ents[CHOOSE i \in 1..Len(o.ents) : o.ents[i].k = key].v
               ELSE Undefined
\* Array.prototype.filter on a sequence of keys
RECURSIVE FilterOut(_, _)
FilterOut(keys, excl) ==
  IF keys = <<>> THEN <<>>
  ELSE IF Includes(excl, Head(keys)) THEN FilterOut(Tail(keys), excl)
       ELSE <<Head(keys)>> \o FilterOut(Tail(keys), excl)

\* The order of Array.prototype.sort() on the keys the model uses (UTF-16
\* code units: digits, then upper case, then lower case)
KeyRank(key) == CASE key = "0" -> 0 [] key = "1" -> 1 [] key = "2" -> 2
                  [] key = "Arn" -> 3 [] key = "Name" -> 4
                  [] key = "Size" -> 5 [] key = "Tags" -> 6
                  [] key = "a" -> 7 [] key = "b" -> 8 [] OTHER -> 9
\* The keys of S in ascending order: the i-th is the one with i-1 keys below it
SortSet(S) ==
  [i \in 1..Cardinality(S) |->
     CHOOSE x \in S : Cardinality({y \in S : KeyRank(y) < KeyRank(x)}) = i - 1]
SortKeys(keys) == SortSet(Range(keys))

(* ---------------------------------------------------------------------- *)
(* utils/compare.ts                                                        *)
(* ---------------------------------------------------------------------- *)
RECURSIVE deepEqual(_, _, _)
deepEqual(a, b, excludeKeys) ==
  IF StrictEq(a, b) THEN TRUE
  ELSE IF IsNullish(a) \/ IsNullish(b) THEN FALSE
  ELSE IF TypeOf(a) # TypeOf(b) THEN FALSE
  ELSE IF IsArray(a) /\ IsArray(b)
    THEN IF Len(a.ents) # Len(b.ents) THEN FALSE
         ELSE \A i \in 1..Len(a.ents) : deepEqual(a.ents[i].v, b.ents[i].v, excludeKeys)
  ELSE IF TypeOf(a) = "object" /\ TypeOf(b) = "object"
    THEN \E keysA \in {SortKeys(FilterOut(ObjectKeys(a), excludeKeys))},
            keysB \in {SortKeys(FilterOut(ObjectKeys(b), excludeKeys))} :
           IF Len(keysA) # Len(keysB) THEN FALSE
           ELSE IF ~(\A i \in 1..Len(keysA) : keysA[i] = keysB[i]) THEN FALSE
           ELSE \A i \in 1..Len(keysA) :
                  deepEqual(Get(a, keysA[i]), Get(b, keysA[i]), excludeKeys)
  ELSE FALSE

\* new Set([...xs, ...ys]) iterated: first occurrences, in order
RECURSIVE Dedup(_, _)
Dedup(s, seen) ==
  IF s = <<>> THEN <<>>
  ELSE IF Head(s) \in seen THEN Dedup(Tail(s), seen)
       ELSE <<Head(s)>> \o Dedup(Tail(s), seen \cup {Head(s)})
KeyUnion(xs, ys) == Dedup(xs \o ys, {})

RECURSIVE driftedLoop(_, _, _, _)
driftedLoop(keys, actualState, lastKnownState, excludeKeys) ==
  IF keys = <<>> THEN <<>>
  ELSE LET key == Head(keys)
           rest == driftedLoop(Tail(keys), actualState, lastKnownState, excludeKeys)
       IN IF Includes(excludeKeys, key) THEN rest
          ELSE IF ~deepEqual(Get(actualState, key), Get(lastKnownState, key), <<>>)
               THEN <<key>> \o rest
               ELSE rest
\* getDriftedFields that walks the keys of the stored state only
getDriftedFieldsStoredKeys(actualState, lastKnownState, excludeKeys) ==
  CHOOSE changedFields \in
    { driftedLoop(allKeys, actualState, lastKnownState, excludeKeys) :
        allKeys \in {ObjectKeys(lastKnownState)} } : TRUE

\* allKeys is bound to the value of the Set before the loop runs
getDriftedFields(actualState, lastKnownState, excludeKeys) ==
  CHOOSE changedFields \in
    { driftedLoop(allKeys, actualState, lastKnownState, excludeKeys) :
        allKeys \in {KeyUnion(ObjectKeys(actualState), ObjectKeys(lastKnownState))} } : TRUE

(* ---------------------------------------------------------------------- *)
(* utils/patch.ts                                                          *)
(* ---------------------------------------------------------------------- *)
RECURSIVE patchDeepEqual(_, _)
patchDeepEqual(a, b) ==
  IF StrictEq(a, b) THEN TRUE
  ELSE IF IsNullish(a) \/ IsNullish(b) THEN FALSE
  ELSE IF TypeOf(a) # TypeOf(b) THEN FALSE
  ELSE IF IsArray(a) /\ IsArray(b)
    THEN IF Len(a.ents) # Len(b.ents) THEN FALSE
         ELSE \A i \in 1..Len(a.ents) : patchDeepEqual(a.ents[i].v, b.ents[i].v)
  ELSE IF TypeOf(a) = "object" /\ TypeOf(b) = "object"
    THEN IF Len(a.ents) # Len(b.ents) THEN FALSE
         ELSE \A i \in 1..Len(a.ents) :
                patchDeepEqual(a.ents[i].v, Get(b, a.ents[i].k))
  ELSE FALSE

\* A patch operation; path is the pair "/" , key of the template `/${key}`
PatchOp(o, key, val) == [op |-> o, path |-> <<"/", key>>, value |-> val]

RECURSIVE patchLoop(_, _, _, _, _)
patchLoop(keys, oldObj, newObj, readOnlyKeys, userConfigKeys) ==
  IF keys = <<>> THEN <<>>
  ELSE LET key == Head(keys)
           rest == patchLoop(Tail(keys), oldObj, newObj, readOnlyKeys, userConfigKeys)
           oldValue == Get(oldObj, key)
           newValue == Get(newObj, key)
       IN IF Includes(readOnlyKeys, key) THEN rest
          ELSE IF ~IsUndef(oldValue) /\ IsUndef(newValue)
                  /\ Includes(userConfigKeys, key)
            THEN <<PatchOp("remove", key, Undefined)>> \o rest
          ELSE IF IsUndef(oldValue) /\ ~IsUndef(newValue)
            THEN <<PatchOp("add", key, newValue)>> \o rest
          ELSE IF ~IsUndef(oldValue) /\ ~IsUndef(newValue)
                  /\ ~patchDeepEqual(oldValue, newValue)
            THEN <<PatchOp("replace", key, newValue)>> \o rest
          ELSE rest
\* generateJsonPatch over the keys of both objects, removing every key the
\* new object lacks
generateJsonPatchAllKeys(oldObj, newObj, readOnlyKeys, userConfigKeys) ==
  LET allKeys == KeyUnion(ObjectKeys(oldObj), ObjectKeys(newObj))
  IN patchLoop(allKeys, oldObj, newObj, readOnlyKeys, allKeys)

\* generateJsonPatch without the skip of the read-only keys
generateJsonPatchNoSkip(oldObj, newObj, readOnlyKeys, userConfigKeys) ==
  patchLoop(KeyUnion(ObjectKeys(newObj), userConfigKeys),
            oldObj, newObj, <<>>, userConfigKeys)

\* allKeys is bound to the value of the Set before the loop runs
generateJsonPatch(oldObj, newObj, readOnlyKeys, userConfigKeys) ==
  CHOOSE operations \in
    { patchLoop(allKeys, oldObj, newObj, readOnlyKeys, userConfigKeys) :
        allKeys \in {KeyUnion(ObjectKeys(newObj), userConfigKeys)} } : TRUE

(* ---------------------------------------------------------------------- *)
(* utils/hash.ts                                                           *)
(* ---------------------------------------------------------------------- *)
NumStr(n) == CASE n = 0 -> "0" [] n = 1 -> "1" [] n = 2 -> "2" [] n = 3 -> "3"
               [] n = 4 -> "4" [] OTHER -> "9"
\* JSON.stringify as a sequence of tokens, entries in the value's own order
RECURSIVE Stringify(_)
RECURSIVE StringifyEnts(_, _, _)
StringifyEnts(es, i, isArr) ==
  IF i > Len(es) THEN <<>>
  ELSE (IF i > 1 THEN <<",">> ELSE <<>>)
       \o (IF isArr THEN <<>> ELSE <<es[i].k, ":">>)
       \o Stringify(es[i].v)
       \o StringifyEnts(es, i + 1, isArr)
Stringify(a) ==
  CASE a.kind = "number" -> <<NumStr(a.num)>>
    [] a.kind = "null" -> <<"null">>
    [] a.kind = "array" -> <<"[">> \o StringifyEnts(a.ents, 1, TRUE) \o <<"]">>
    [] a.kind = "object" -> <<"{">> \o StringifyEnts(a.ents, 1, FALSE) \o <<"}">>
    [] OTHER -> <<>>

\* The reduce over the sorted keys: a new object with the top-level keys in
\* sorted order and the values as they are
sortedConfig(config) ==
  LET ks == SortKeys(ObjectKeys(config))
  IN Obj([i \in 1..Len(ks) |-> Ent(ks[i], Get(config, ks[i]))])
\* The digest is a function of the serialized text only; SHA-256 is taken to
\* be injective, so the digest is represented by the text it was taken of
calculateConfigHash(config) ==
  CHOOSE digest \in
    { <<"sha256">> \o Stringify(configObject) :
        configObject \in {sortedConfig(config)} } : TRUE

(* ---------------------------------------------------------------------- *)
(* utils/cloudformation.ts: the schema of the resource type               *)
(* ---------------------------------------------------------------------- *)
\* schema.readOnlyProperties / schema.createOnlyProperties of the managed
\* type: property paths, the marker "/properties/" followed by the name
SchemaReadOnly == << <<"/properties/", "Arn">> >>
SchemaCreateOnly == << <<"/properties/", "Name">> >>
\* prop.replace("/properties/", "")
StripMarker(prop) == IF prop[1] = "/properties/" THEN prop[2] ELSE prop[1]
MapStrip(props) == [i \in 1..Len(props) |-> StripMarker(props[i])]
nonUpdatableProperties == MapStrip(SchemaReadOnly) \o MapStrip(SchemaCreateOnly)

(* ---------------------------------------------------------------------- *)
(* The values the caller and the remote system range over                  *)
(* ---------------------------------------------------------------------- *)
NoToken == 0
Tokens == 1..MaxToken
\* The token the remote system hands out after token t
NextToken(t) == (t % MaxToken) + 1
NoId == ""
TheId == "abc"
OtherId == "xyz"
\* The Identifier of a ProgressEvent: that of the resource, one that names
\* no resource, or none
Identifiers == {TheId, OtherId, NoId}
NoHash == <<>>
EmptyObj == Obj(<<>>)
EmptyArr == Arr(<<>>)

\* block.config.state when the block is created, and the states the caller
\* may change it to
InitialConfig == Obj(<<Ent("Name", Num(1)), Ent("Size", Num(1))>>)
Configs ==
  { Obj(<<Ent("Name", Num(1)), Ent("Size", Num(1))>>),
    Obj(<<Ent("Name", Num(1)), Ent("Size", Num(2))>>),
    Obj(<<Ent("Name", Num(2)), Ent("Size", Num(1))>>),
    Obj(<<Ent("Name", Num(1))>>),
    Obj(<<Ent("Name", Num(1)), Ent("Size", Num(1)), Ent("Tags", EmptyObj)>>) }

\* out-of-band changes of one remote property (Undefined: the property
\* disappears)
DriftChoices ==
  { Ent("Size", Num(1)), Ent("Size", Num(2)),
    Ent("Tags", EmptyArr), Ent("Tags", EmptyObj), Ent("Tags", Undefined),
    Ent("Arn", Num(2)) }

\* obj with key set to val (in place when present, appended otherwise)
SetKey(obj, key, val) ==
  IF HasKey(obj, key)
  THEN Obj([i \in 1..Len(obj.ents) |->
             IF obj.ents[i].k = key THEN Ent(key, val) ELSE obj.ents[i]])
  ELSE Obj(Append(obj.ents, Ent(key, val)))
RECURSIVE DropKey(_, _)
DropKey(es, key) ==
  IF es = <<>> THEN <<>>
  ELSE IF Head(es).k = key THEN DropKey(Tail(es), key)
       ELSE <<Head(es)>> \o DropKey(Tail(es), key)
RemoveKey(obj, key) == Obj(DropKey(obj.ents, key))

\* The remote system applying a patch document to a resource's properties
RECURSIVE ApplyPatch(_, _)
ApplyPatch(obj, patch) ==
  IF patch = <<>> THEN obj
  ELSE LET p == Head(patch)
           key == p.path[2]
       IN ApplyPatch(IF p.op = "remove" THEN RemoveKey(obj, key)
                     ELSE SetKey(obj, key, p.value), Tail(patch))
\* The properties of a freshly created resource: the submitted state plus
\* the server-assigned read-only property
CreatedProps(state) == SetKey(state, "Arn", Num(1))

(* ---------------------------------------------------------------------- *)
(* State                                                                   *)
(* ---------------------------------------------------------------------- *)
VARIABLES
  desired,     \* opts.getDesiredState(block.config)
  reconcile,   \* block.config.reconcileOnDrift
  kvToken,     \* KV "internal:requestToken" (NoToken: no value)
  kvHash,      \* KV "internal:configHash" (NoHash: no value)
  kvCache,     \* KV "nonupdatable:<typeName>": [has, keys]
  sigId,       \* signal resourceIdentifier (NoId: not set)
  sigState,    \* signal state (Undefined: not set)
  sigDrifted,  \* signal drifted: "unset", "true" or "false"
  status,      \* the lifecycle status last returned by a handler
  phase,       \* "live", or "teardown" once the scheduler drains the block
  remote,      \* the remote resource: [exists, props]
  op,          \* the remote system's latest operation: [kind, status, token, state, patch]
  edits,       \* number of edits of the desired state so far
  drifts,      \* number of out-of-band changes of the resource so far
  last,        \* what the latest handler invocation read, did and returned
  call         \* a call of a utility function on its own: arguments and result

vars == <<desired, reconcile, kvToken, kvHash, kvCache, sigId, sigState,
          sigDrifted, status, phase, remote, op, edits, drifts, last, call>>

NoOp == [kind |-> "NONE", status |-> "NONE", token |-> NoToken,
         state |-> Undefined, patch |-> <<>>]

\* What is remembered of the invocation l by the one that follows it: that
\* it was an onSync that returned ready, and whether it got there from the
\* polling branch or from the drift check
NoOutcome == [handler |-> "none", branch |-> "none", newStatus |-> "none"]
Outcome(l) ==
  IF l.handler = "sync" /\ ~l.fault /\ l.newStatus = "ready"
  THEN [handler |-> "sync",
        branch |-> IF l.branch = "poll" THEN "poll" ELSE "check",
        newStatus |-> "ready"]
  ELSE NoOutcome

\* The persisted fields a handler invocation starts from, and how the
\* invocation right before it ended (NoOutcome unless that was an onSync
\* returning ready with nothing happening since)
Snapshot == [token |-> kvToken, hash |-> kvHash, id |-> sigId, state |-> sigState,
             drifted |-> sigDrifted, desired |-> desired, reconcile |-> reconcile,
             status |-> status, cache |-> kvCache, prior |-> Outcome(last)]

\* The record of an invocation before it has done anything
Idle == [handler |-> "none", branch |-> "none", fault |-> FALSE, threw |-> "none",
         newStatus |-> "none", delay |-> 0, desc |-> <<>>,
         nCreate |-> 0, nPoll |-> 0, nGet |-> 0, nUpdate |-> 0, nDelete |-> 0,
         createState |-> <<>>, patch |-> <<>>, events |-> <<>>,
         respStatus |-> "none", respToken |-> NoToken,
         pollOp |-> "none", pollId |-> NoId, deleteId |-> NoId,
         fetched |-> Undefined, keys |-> <<>>, describe |-> "none", writes |-> {},
         pre |-> [token |-> NoToken, hash |-> NoHash, id |-> NoId,
                  state |-> Undefined, drifted |-> "unset",
                  desired |-> Undefined, reconcile |-> TRUE, status |-> "none",
                  cache |-> [has |-> FALSE, keys |-> <<>>],
                  prior |-> NoOutcome]]

\* No utility function is called on its own
NoCall == [fn |-> "none", oldObj |-> Undefined, newObj |-> Undefined,
           readOnlyKeys |-> <<>>, userConfigKeys |-> <<>>,
           done |-> FALSE, result |-> <<>>]

\* The block before its first invocation
Fresh ==
  /\ desired = InitialConfig
  /\ kvToken = NoToken
  /\ kvHash = NoHash
  /\ kvCache = [has |-> FALSE, keys |-> <<>>]
  /\ sigId = NoId
  /\ sigState = Undefined
  /\ sigDrifted = "unset"
  /\ status = "none"
  /\ phase = "live"
  /\ remote = [exists |-> FALSE, props |-> EmptyObj]
  /\ op = NoOp
  /\ edits = 0
  /\ drifts = 0
  /\ last = Idle

Init ==
  /\ Fresh
  /\ reconcile \in BOOLEAN
  /\ call = NoCall

(* ---------------------------------------------------------------------- *)
(* The caller and the remote system                                        *)
(* ---------------------------------------------------------------------- *)
\* The caller edits the desired state of the block
ChangeConfig ==
  /\ phase = "live"
  /\ edits < MaxEdits
  /\ \E c \in Configs \ {desired} : desired' = c
  /\ edits' = edits + 1
  /\ last' = Idle
  /\ UNCHANGED <<call, reconcile, kvToken, kvHash, kvCache, sigId, sigState,
                 sigDrifted, status, phase, remote, op, drifts>>

\* The scheduler starts the teardown of the block
RequestDrain ==
  /\ phase = "live"
  /\ phase' = "teardown"
  /\ last' = Idle
  /\ UNCHANGED <<call, desired, reconcile, kvToken, kvHash, kvCache, sigId, sigState,
                 sigDrifted, status, remote, op, edits, drifts>>

\* The effect of the operation o on the remote resource once it succeeds
Effect(o, r) ==
  CASE o.kind = "CREATE" -> [exists |-> TRUE, props |-> CreatedProps(o.state)]
    [] o.kind = "UPDATE" -> [exists |-> r.exists, props |-> ApplyPatch(r.props, o.patch)]
    [] o.kind = "DELETE" -> [exists |-> FALSE, props |-> EmptyObj]
    [] OTHER -> r

\* The remote system's record of an operation that has ended: its kind,
\* token and final status
Settled(o, st) == [o EXCEPT !.status = st, !.state = Undefined, !.patch = <<>>]

\* An operation in flight completes
OpSucceed ==
  /\ op.status = "IN_PROGRESS"
  /\ op' = Settled(op, "SUCCESS")
  /\ remote' = Effect(op, remote)
  /\ last' = Idle
  /\ UNCHANGED <<call, desired, reconcile, kvToken, kvHash, kvCache, sigId, sigState,
                 sigDrifted, status, phase, edits, drifts>>

\* An operation in flight fails and leaves the resource as it was
OpFail ==
  /\ op.status = "IN_PROGRESS"
  /\ op' = Settled(op, "FAILED")
  /\ last' = Idle
  /\ UNCHANGED <<call, desired, reconcile, kvToken, kvHash, kvCache, sigId, sigState,
                 sigDrifted, status, phase, remote, edits, drifts>>

\* Somebody changes a property of the remote resource out of band
RemoteDrift ==
  /\ remote.exists
  /\ drifts < MaxDrifts
  /\ \E d \in DriftChoices :
       LET p == IF IsUndef(d.v) THEN RemoveKey(remote.props, d.k)
                ELSE SetKey(remote.props, d.k, d.v)
       IN /\ p # remote.props
          /\ remote' = [remote EXCEPT !.props = p]
  /\ drifts' = drifts + 1
  /\ last' = Idle
  /\ UNCHANGED <<call, desired, reconcile, kvToken, kvHash, kvCache, sigId, sigState,
                 sigDrifted, status, phase, op, edits>>

(* ---------------------------------------------------------------------- *)
(* utils/cloudformation.ts: getNonUpdatableProperties                      *)
(* ---------------------------------------------------------------------- *)
\* fetch is the outcome of DescribeType: "ok", or "fail" (the call throws or
\* the response has no Schema).  The result: the keys returned, whether the
\* function threw, and the cache entry it leaves.
\* describe tells whether DescribeType was sent: "hit" (not sent), "ok", "fail".
\* The resolver that never reads its cache
getNonUpdatablePropertiesNoCache(cache, fetch) ==
  IF fetch = "fail"
  THEN [keys |-> <<>>, threw |-> TRUE, cache |-> cache, describe |-> "fail"]
  ELSE [keys |-> nonUpdatableProperties, threw |-> FALSE, describe |-> "ok",
        cache |-> [has |-> TRUE, keys |-> nonUpdatableProperties]]

\* The resolver that caches an empty list when the fetch fails
getNonUpdatablePropertiesCachesFailure(cache, fetch) ==
  IF cache.has
  THEN [keys |-> cache.keys, threw |-> FALSE, cache |-> cache, describe |-> "hit"]
  ELSE IF fetch = "fail"
  THEN [keys |-> <<>>, threw |-> TRUE, cache |-> [has |-> TRUE, keys |-> <<>>],
        describe |-> "fail"]
  ELSE [keys |-> nonUpdatableProperties, threw |-> FALSE, describe |-> "ok",
        cache |-> [has |-> TRUE, keys |-> nonUpdatableProperties]]

getNonUpdatableProperties(cache, fetch) ==
  IF cache.has
  THEN [keys |-> cache.keys, threw |-> FALSE, cache |-> cache, describe |-> "hit"]
  ELSE IF fetch = "fail"
  THEN [keys |-> <<>>, threw |-> TRUE, cache |-> cache, describe |-> "fail"]
  ELSE [keys |-> nonUpdatableProperties, threw |-> FALSE, describe |-> "ok",
        cache |-> [has |-> TRUE, keys |-> nonUpdatableProperties]]

\* onSync's nonUpdatablePropertyKeys: [] unless the resolver returns
ResolveKeys(fetch) ==
  LET r == getNonUpdatableProperties(kvCache, fetch)
  IN IF r.threw THEN <<>> ELSE r.keys
ResolveCache(fetch) == getNonUpdatableProperties(kvCache, fetch).cache
ResolveDescribe(fetch) == getNonUpdatableProperties(kvCache, fetch).describe
\* DescribeType is called only when the cache has no entry
FetchOutcomes == IF kvCache.has THEN {"ok"} ELSE {"ok", "fail"}

(* ---------------------------------------------------------------------- *)
(* The remote resource API as the handlers see it                          *)
(* ---------------------------------------------------------------------- *)
\* A mutating call is answered with one of these statuses, or throws
Statuses == {"IN_PROGRESS", "SUCCESS", "FAILED"}
\* The remote system accepts one operation at a time
Busy == op.status = "IN_PROGRESS"
\* The operation a mutating call that was accepted leaves in the remote
\* system, and the resource after it
Accepted(kind, rs, t, state, patch) ==
  IF rs = "IN_PROGRESS"
  THEN [kind |-> kind, status |-> rs, token |-> t, state |-> state, patch |-> patch]
  ELSE Settled([kind |-> kind, status |-> rs, token |-> t,
                state |-> state, patch |-> patch], rs)
OpAfter(kind, rs, t, state, patch) ==
  IF rs = "FAILED" THEN op ELSE Accepted(kind, rs, t, state, patch)
RemoteAfter(kind, rs, t, state, patch) ==
  IF rs = "SUCCESS"
  THEN Effect([kind |-> kind, state |-> state, patch |-> patch], remote)
  ELSE remote
\* The RequestToken of the ProgressEvent a status query is answered with
\* while the operation runs: the token queried with, a new one, or none
RotatedTokens == IF op.status = "IN_PROGRESS"
                 THEN {kvToken, NextToken(kvToken), NoToken}
                 ELSE {kvToken}
\* GetResource: the Properties text parses ("ok") or does not ("malformed"),
\* or the call throws
GetOutcomes == IF remote.exists THEN {"ok", "malformed", "throw"}
               ELSE {"throw"}
\* JSON.parse(ResourceDescription?.Properties || "{}")
ParseProperties(g) == IF g = "ok" THEN remote.props ELSE EmptyObj

\* OperationFailed with a fixed text in place of the operation's name
OperationFailedGeneric(operation) == <<"Operation", " failed, see logs">>

\* `${Operation} failed, see logs`
OperationFailed(operation) == <<operation, " failed, see logs">>
\* `Drifted (${driftedFields.join(", ")})`
RECURSIVE Join(_)
Join(s) == IF s = <<>> THEN <<>>
           ELSE IF Len(s) = 1 THEN s
           ELSE <<Head(s), ", ">> \o Join(Tail(s))
DriftedDescription(driftedFields) == <<"Drifted (">> \o Join(driftedFields) \o <<")">>

\* An emitted event
Event(st, id, dr) == [state |-> st, resourceIdentifier |-> id, drifted |-> dr]

\* What a handler invocation returns and leaves behind: the returned status,
\* delay and description, the KV entries (tok, hash), the signals after
\* signalUpdates (id, st, dr), the events emitted and the fields written
Keep(newStatus, delay, desc) ==
  [newStatus |-> newStatus, delay |-> delay, desc |-> desc,
   tok |-> kvToken, hash |-> kvHash, id |-> sigId, st |-> sigState,
   dr |-> sigDrifted, events |-> <<>>, writes |-> {}]

\* The end of a handler invocation that returns r0, started as l0
Finish(l0, r0) ==
  \E l \in {l0}, r \in {r0} :
  /\ last' = [l EXCEPT !.newStatus = r.newStatus, !.delay = r.delay,
                       !.desc = r.desc, !.events = r.events, !.writes = r.writes]
  /\ kvToken' = r.tok
  /\ kvHash' = r.hash
  /\ sigId' = r.id
  /\ sigState' = r.st
  /\ sigDrifted' = r.dr
  /\ status' = r.newStatus
\* An exception that leaves the handler after the stored token was deleted
ThrownAfterDelete(l, where) ==
  /\ last' = [l EXCEPT !.fault = TRUE, !.threw = where]
  /\ kvToken' = NoToken
  /\ UNCHANGED <<kvHash, sigId, sigState, sigDrifted, status>>

\* An exception of the call `where` leaves the handler: nothing is returned
\* and nothing more is written
Thrown(l, where) ==
  /\ last' = [l EXCEPT !.fault = TRUE, !.threw = where]
  /\ UNCHANGED <<kvToken, kvHash, sigId, sigState, sigDrifted, status>>

(* ---------------------------------------------------------------------- *)
(* utils/cloudControl.ts: onSync                                           *)
(* ---------------------------------------------------------------------- *)
RepollDelay == 10

\* The start of onSync: signals and KV read, non-updatable keys resolved
SyncStart(branch, fetch) ==
  [Idle EXCEPT !.handler = "sync", !.branch = branch, !.pre = Snapshot,
               !.keys = ResolveKeys(fetch), !.describe = ResolveDescribe(fetch)]

\* createReturn that forgets to store the fingerprint
createReturnNoHash(OperationStatus, RequestToken, currentConfigHash) ==
  IF OperationStatus = "FAILED"
  THEN Keep("failed", 0, <<"Creation failed, see logs">>)
  ELSE [Keep("in_progress", RepollDelay, <<>>) EXCEPT
          !.tok = RequestToken, !.writes = {"requestToken"}]

\* After CreateResourceCommand was answered
createReturn(OperationStatus, RequestToken, currentConfigHash) ==
  IF OperationStatus = "FAILED"
  THEN Keep("failed", 0, <<"Creation failed, see logs">>)
  ELSE [Keep("in_progress", RepollDelay, <<>>) EXCEPT
          !.hash = currentConfigHash, !.tok = RequestToken,
          !.writes = {"configHash", "requestToken"}]

\* The polled operation has FAILED
pollFailedReturn(Operation) ==
  [Keep("failed", 0, OperationFailed(Operation)) EXCEPT
     !.tok = NoToken, !.writes = {"requestToken"}]

\* pollSuccessReturn that leaves the request token in the KV store
pollSuccessReturnKeepsToken(resourceProperties, Identifier, nonUpdatablePropertyKeys) ==
  [Keep("ready", 0, <<>>) EXCEPT
     !.events = <<Event(resourceProperties, Identifier, FALSE)>>,
     !.st = resourceProperties, !.id = Identifier, !.dr = "false",
     !.writes = {"state", "resourceIdentifier", "drifted"}]

\* pollSuccessReturn that drops an identifier already assigned
pollSuccessReturnDropsId(resourceProperties, Identifier, nonUpdatablePropertyKeys) ==
  [Keep("ready", 0, <<>>) EXCEPT
     !.tok = NoToken,
     !.st = resourceProperties,
     !.id = IF sigId = NoId THEN Identifier ELSE NoId, !.dr = "false",
     !.writes = {"requestToken", "state", "resourceIdentifier", "drifted"}]

\* The polled operation has succeeded and the resource was fetched
pollSuccessReturn(resourceProperties, Identifier, nonUpdatablePropertyKeys) ==
  LET previousState == IF IsUndef(sigState) THEN EmptyObj ELSE sigState
      stateChanged == ~deepEqual(resourceProperties, previousState,
                                 nonUpdatablePropertyKeys)
  IN [Keep("ready", 0, <<>>) EXCEPT
        !.tok = NoToken,
        !.events = IF stateChanged
                   THEN <<Event(resourceProperties, Identifier, FALSE)>>
                   ELSE <<>>,
        !.st = resourceProperties, !.id = Identifier, !.dr = "false",
        !.writes = {"requestToken", "state", "resourceIdentifier", "drifted"}]

\* pollPendingReturn that keeps the token it polled with
pollPendingReturnStale(NewRequestToken) == Keep("in_progress", RepollDelay, <<>>)

\* The polled operation is still running
pollPendingReturn(NewRequestToken) ==
  [Keep("in_progress", RepollDelay, <<>>) EXCEPT
     !.tok = NewRequestToken, !.writes = {"requestToken"}]

\* reportDriftReturn that stores the drifted state as the new baseline
reportDriftReturnRebased(actualState, lastKnownState, nonUpdatablePropertyKeys) ==
  LET driftedFields == getDriftedFields(actualState, lastKnownState,
                                        nonUpdatablePropertyKeys)
  IN [Keep("ready", 0, DriftedDescription(driftedFields)) EXCEPT
        !.events = <<Event(actualState, sigId, TRUE)>>,
        !.st = actualState, !.dr = "true", !.writes = {"state", "drifted"}]

\* reportDriftReturn that also drops the stored fingerprint
reportDriftReturnDropsHash(actualState, lastKnownState, nonUpdatablePropertyKeys) ==
  LET driftedFields == getDriftedFields(actualState, lastKnownState,
                                        nonUpdatablePropertyKeys)
  IN [Keep("ready", 0, DriftedDescription(driftedFields)) EXCEPT
        !.events = <<Event(actualState, sigId, TRUE)>>,
        !.hash = NoHash, !.dr = "true", !.writes = {"drifted", "configHash"}]

\* Drift detected but reconciliation disabled: report it
reportDriftReturn(actualState, lastKnownState, nonUpdatablePropertyKeys) ==
  LET driftedFields == getDriftedFields(actualState, lastKnownState,
                                        nonUpdatablePropertyKeys)
  IN [Keep("ready", 0, DriftedDescription(driftedFields)) EXCEPT
        !.events = <<Event(actualState, sigId, TRUE)>>,
        !.dr = "true", !.writes = {"drifted"}]

\* noPatchReturn that does not store the new fingerprint
noPatchReturnNoHash(actualState, lastKnownState, nonUpdatablePropertyKeys, currentConfigHash) ==
  [Keep("ready", 0, <<>>) EXCEPT
     !.st = actualState, !.dr = "false", !.writes = {"state", "drifted"}]

\* The patch is empty: no changes needed, just update the stored state
noPatchReturn(actualState, lastKnownState, nonUpdatablePropertyKeys, currentConfigHash) ==
  LET stateChanged == ~deepEqual(actualState, lastKnownState,
                                 nonUpdatablePropertyKeys)
  IN [Keep("ready", 0, <<>>) EXCEPT
        !.hash = currentConfigHash,
        !.events = IF stateChanged THEN <<Event(actualState, sigId, FALSE)>>
                   ELSE <<>>,
        !.st = actualState, !.dr = "false",
        !.writes = {"configHash", "state", "drifted"}]

\* updateReturn that stores the fingerprint although the update was refused
updateReturnFailedStoresHash(OperationStatus, RequestToken, currentConfigHash) ==
  IF OperationStatus = "FAILED"
  THEN [Keep("failed", 0, <<"Update failed, see logs">>) EXCEPT
          !.hash = currentConfigHash, !.writes = {"configHash"}]
  ELSE [Keep("in_progress", RepollDelay, <<>>) EXCEPT
          !.hash = currentConfigHash, !.tok = RequestToken,
          !.writes = {"configHash", "requestToken"}]

\* After UpdateResourceCommand was answered
updateReturn(OperationStatus, RequestToken, currentConfigHash) ==
  IF OperationStatus = "FAILED"
  THEN Keep("failed", 0, <<"Update failed, see logs">>)
  ELSE [Keep("in_progress", RepollDelay, <<>>) EXCEPT
          !.hash = currentConfigHash, !.tok = RequestToken,
          !.writes = {"configHash", "requestToken"}]

\* State changed but no drift
refreshReturn(actualState) ==
  [Keep("ready", 0, <<>>) EXCEPT
     !.events = <<Event(actualState, sigId, FALSE)>>,
     !.st = actualState, !.dr = "false", !.writes = {"state", "drifted"}]

\* checkBranch that always takes the state refresh when nothing has changed
checkBranchAlwaysRefresh(actualState, lastKnownState, nonUpdatablePropertyKeys, configHash, currentConfigHash, reconcileOnDrift, patchOperations) ==
  LET driftDetected == ~deepEqual(actualState, lastKnownState,
                                  nonUpdatablePropertyKeys)
      configChanged == configHash # currentConfigHash
      shouldReconcile == reconcileOnDrift # FALSE
  IN IF driftDetected \/ configChanged
     THEN IF ~shouldReconcile /\ driftDetected /\ ~configChanged THEN "report"
          ELSE IF Len(patchOperations) = 0 THEN "nopatch"
          ELSE "update"
     ELSE "refresh"

\* The way onSync takes once it has fetched the resource: which of its
\* returns the drift check leads to
checkBranch(actualState, lastKnownState, nonUpdatablePropertyKeys, configHash, currentConfigHash, reconcileOnDrift, patchOperations) ==
  LET driftDetected == ~deepEqual(actualState, lastKnownState,
                                  nonUpdatablePropertyKeys)
      configChanged == configHash # currentConfigHash
      shouldReconcile == reconcileOnDrift # FALSE
  IN IF driftDetected \/ configChanged
     THEN IF ~shouldReconcile /\ driftDetected /\ ~configChanged THEN "report"
          ELSE IF Len(patchOperations) = 0 THEN "nopatch"
          ELSE "update"
     ELSE IF ~deepEqual(actualState, lastKnownState, nonUpdatablePropertyKeys)
          THEN "refresh"
          ELSE "insync"

\* No request token and no identifier: create the resource
SyncCreate ==
  /\ phase = "live"
  /\ kvToken = NoToken /\ sigId = NoId
  /\ \E fetch \in FetchOutcomes,
        rs \in (IF Busy \/ remote.exists THEN {"FAILED", "throw"}
                ELSE Statuses \cup {"throw"}) :
       LET RequestToken == NextToken(op.token)
           currentConfigHash == calculateConfigHash(desired)
           l0 == [SyncStart("create", fetch) EXCEPT
                    !.nCreate = 1, !.createState = Stringify(desired)]
           l1 == [l0 EXCEPT !.respStatus = rs, !.respToken = RequestToken]
       IN /\ kvCache' = ResolveCache(fetch)
          /\ IF rs = "throw"
             THEN Thrown(l0, "create") /\ UNCHANGED <<op, remote>>
             ELSE /\ op' = OpAfter("CREATE", rs, RequestToken, desired, <<>>)
                  /\ remote' = RemoteAfter("CREATE", rs, RequestToken, desired, <<>>)
                  /\ Finish(l1, createReturn(rs, RequestToken, currentConfigHash))
  /\ UNCHANGED <<call, desired, reconcile, phase, edits, drifts>>

\* A request token is stored: check the operation in flight
SyncPoll ==
  /\ phase = "live"
  /\ kvToken # NoToken
  /\ \E fetch \in FetchOutcomes, p \in {"answer", "throw"},
        NewRequestToken \in RotatedTokens,
        Identifier \in (IF op.status = "SUCCESS" THEN Identifiers ELSE {TheId}),
        g0 \in (IF op.status = "SUCCESS" THEN GetOutcomes ELSE {"throw"}) :
       LET l0 == [SyncStart("poll", fetch) EXCEPT !.nPoll = 1]
           g == IF Identifier = TheId THEN g0 ELSE "throw"
           l1 == [l0 EXCEPT !.respStatus = op.status, !.pollOp = op.kind,
                            !.pollId = Identifier]
           resourceProperties == ParseProperties(g)
       IN /\ kvCache' = ResolveCache(fetch)
          /\ IF p = "throw" \/ kvToken # op.token
             THEN Thrown(l0, "poll") /\ UNCHANGED <<op, remote>>
             ELSE IF op.status = "FAILED"
             THEN Finish(l1, pollFailedReturn(op.kind)) /\ UNCHANGED <<op, remote>>
             ELSE IF op.status = "SUCCESS"
             THEN /\ IF g = "throw"
                     THEN Thrown([l1 EXCEPT !.nGet = 1], "get")
                     ELSE IF g = "malformed"
                     THEN Thrown([l1 EXCEPT !.nGet = 1], "parse")
                     ELSE Finish([l1 EXCEPT !.nGet = 1, !.fetched = resourceProperties],
                                 pollSuccessReturn(resourceProperties, Identifier, l0.keys))
                  /\ UNCHANGED <<op, remote>>
             ELSE /\ Finish([l1 EXCEPT !.respToken = NewRequestToken],
                            pollPendingReturn(NewRequestToken))
                  /\ op' = IF NewRequestToken = NoToken THEN op
                           ELSE [op EXCEPT !.token = NewRequestToken]
                  /\ UNCHANGED remote
  /\ UNCHANGED <<call, desired, reconcile, phase, edits, drifts>>

\* An identifier and no token: drift check, reconciliation, or nothing to do
SyncCheck ==
  /\ phase = "live"
  /\ kvToken = NoToken /\ sigId # NoId
  /\ \E fetch \in FetchOutcomes, g \in GetOutcomes,
        rs \in (IF Busy \/ ~remote.exists THEN {"FAILED", "throw"}
                ELSE Statuses \cup {"throw"}) :
       \E RequestToken \in {NextToken(op.token)},
          currentConfigHash \in {calculateConfigHash(desired)},
          l0 \in {[SyncStart("check", fetch) EXCEPT !.nGet = 1]},
          actualState \in {ParseProperties(g)},
          lastKnownState \in {IF IsUndef(sigState) THEN EmptyObj ELSE sigState} :
       \E nonUpdatablePropertyKeys \in {l0.keys} :
       \E patchOperations \in {generateJsonPatch(actualState, desired,
                                                nonUpdatablePropertyKeys,
                                                ObjectKeys(desired))} :
       \E branch \in {checkBranch(actualState, lastKnownState, nonUpdatablePropertyKeys,
                                 kvHash, currentConfigHash, reconcile, patchOperations)} :
       \E l1 \in {[l0 EXCEPT !.fetched = actualState, !.branch = branch]} :
       \E l2 \in {[l1 EXCEPT !.nUpdate = 1, !.patch = patchOperations]} :
       \E l3 \in {[l2 EXCEPT !.respStatus = rs, !.respToken = RequestToken]} :
          /\ kvCache' = ResolveCache(fetch)
          /\ IF g = "throw"
             THEN Thrown(l0, "get") /\ UNCHANGED <<op, remote>>
             ELSE IF g = "malformed"
             THEN Thrown(l0, "parse") /\ UNCHANGED <<op, remote>>
             ELSE IF branch = "report"
             THEN /\ Finish(l1, reportDriftReturn(actualState, lastKnownState,
                                                  nonUpdatablePropertyKeys))
                  /\ UNCHANGED <<op, remote>>
             ELSE IF branch = "nopatch"
             THEN /\ Finish(l1, noPatchReturn(actualState, lastKnownState,
                                              nonUpdatablePropertyKeys, currentConfigHash))
                  /\ UNCHANGED <<op, remote>>
             ELSE IF branch = "update"
             THEN IF rs = "throw"
                  THEN Thrown(l2, "update") /\ UNCHANGED <<op, remote>>
                  ELSE /\ op' = OpAfter("UPDATE", rs, RequestToken, Undefined, patchOperations)
                       /\ remote' = RemoteAfter("UPDATE", rs, RequestToken, Undefined,
                                                patchOperations)
                       /\ Finish(l3, updateReturn(rs, RequestToken, currentConfigHash))
             ELSE IF branch = "refresh"
             THEN Finish(l1, refreshReturn(actualState)) /\ UNCHANGED <<op, remote>>
             ELSE \* resource is in sync
                  Finish(l1, Keep("ready", 0, <<>>)) /\ UNCHANGED <<op, remote>>
  /\ UNCHANGED <<call, desired, reconcile, phase, edits, drifts>>

(* ---------------------------------------------------------------------- *)
(* utils/cloudControl.ts: onDrain                                          *)
(* ---------------------------------------------------------------------- *)
DrainStart(branch) ==
  [Idle EXCEPT !.handler = "drain", !.branch = branch, !.pre = Snapshot]

\* The polled operation has ended or is still running
drainPollReturn(OperationStatus) ==
  IF OperationStatus = "FAILED"
  THEN [Keep("failed", 0, <<"Deletion failed, see logs">>) EXCEPT
          !.tok = NoToken, !.writes = {"requestToken"}]
  ELSE IF OperationStatus = "SUCCESS"
  THEN Keep("drained", 0, <<>>)
  ELSE Keep("draining", RepollDelay, <<>>)

\* deleteReturn that does not store the token of the delete operation
deleteReturnNoToken(OperationStatus, RequestToken) ==
  IF OperationStatus = "FAILED"
  THEN Keep("failed", 0, <<"Deletion failed, see logs">>)
  ELSE IF OperationStatus = "SUCCESS"
  THEN Keep("drained", 0, <<>>)
  ELSE Keep("draining", RepollDelay, <<>>)

\* After DeleteResourceCommand was answered
deleteReturn(OperationStatus, RequestToken) ==
  IF OperationStatus = "FAILED"
  THEN Keep("failed", 0, <<"Deletion failed, see logs">>)
  ELSE IF OperationStatus = "SUCCESS"
  THEN Keep("drained", 0, <<>>)
  ELSE [Keep("draining", RepollDelay, <<>>) EXCEPT
          !.tok = RequestToken, !.writes = {"requestToken"}]

\* nothingReturn that asks to be called again
nothingReturnDraining == Keep("draining", RepollDelay, <<>>)

\* Neither a token nor an identifier: the resource is gone
nothingReturn == Keep("drained", 0, <<>>)

\* Nothing to clean up
DrainNothing ==
  /\ phase = "teardown" /\ status # "drained"
  /\ kvToken = NoToken /\ sigId = NoId
  /\ Finish(DrainStart("nothing"), nothingReturn)
  /\ UNCHANGED <<call, desired, reconcile, kvCache, phase, remote, op, edits, drifts>>

\* A request token is stored: query the status of the operation
DrainPoll ==
  /\ phase = "teardown" /\ status # "drained"
  /\ kvToken # NoToken
  /\ \E p \in {"answer", "throw"}, NewRequestToken \in RotatedTokens :
       LET l0 == [DrainStart("poll") EXCEPT !.nPoll = 1]
           l1 == [l0 EXCEPT !.respStatus = op.status, !.pollOp = op.kind,
                            !.respToken = IF op.status = "IN_PROGRESS"
                                          THEN NewRequestToken ELSE kvToken]
       IN IF p = "throw" \/ kvToken # op.token
          THEN Thrown(l0, "poll") /\ UNCHANGED op
          ELSE /\ Finish(l1, drainPollReturn(op.status))
               /\ op' = IF op.status # "IN_PROGRESS" \/ NewRequestToken = NoToken
                        THEN op
                        ELSE [op EXCEPT !.token = NewRequestToken]
  /\ UNCHANGED <<call, desired, reconcile, kvCache, phase, remote, edits, drifts>>

\* An identifier and no token: delete the resource
DrainDelete ==
  /\ phase = "teardown" /\ status # "drained"
  /\ kvToken = NoToken /\ sigId # NoId
  /\ \E rs \in (IF Busy \/ ~remote.exists THEN {"FAILED", "throw"}
                ELSE Statuses \cup {"throw"}) :
       LET RequestToken == NextToken(op.token)
           l0 == [DrainStart("delete") EXCEPT !.nDelete = 1, !.deleteId = sigId]
           l1 == [l0 EXCEPT !.respStatus = rs, !.respToken = RequestToken]
       IN IF rs = "throw"
          THEN Thrown(l0, "delete") /\ UNCHANGED <<op, remote>>
          ELSE /\ op' = OpAfter("DELETE", rs, RequestToken, Undefined, <<>>)
               /\ remote' = RemoteAfter("DELETE", rs, RequestToken, Undefined, <<>>)
               /\ Finish(l1, deleteReturn(rs, RequestToken))
  /\ UNCHANGED <<call, desired, reconcile, kvCache, phase, edits, drifts>>

(* ---------------------------------------------------------------------- *)
(* Specification                                                           *)
(* ---------------------------------------------------------------------- *)
(* ---------------------------------------------------------------------- *)
(* utils/patch.ts called on its own                                        *)
(* ---------------------------------------------------------------------- *)
\* The property values and keys the arguments are built from
PatchVals == {Num(1), Num(2), Null, EmptyArr, EmptyObj}
PatchObjects ==
  { Obj(SelectSeq(<<Ent("Name", n), Ent("Size", z)>>, LAMBDA e : ~IsUndef(e.v))) :
      n \in PatchVals \cup {Undefined}, z \in PatchVals \cup {Undefined} }
KeyLists == {<<>>, <<"Name">>, <<"Size">>, <<"Name", "Size">>}
PatchCalls ==
  { [fn |-> "generateJsonPatch", oldObj |-> o, newObj |-> n,
     readOnlyKeys |-> r, userConfigKeys |-> u, done |-> FALSE, result |-> <<>>] :
      o \in PatchObjects, n \in PatchObjects, r \in KeyLists, u \in KeyLists }

PatchInit ==
  /\ Fresh
  /\ reconcile = TRUE
  /\ call \in PatchCalls

\* generateJsonPatch(oldObj, newObj, readOnlyKeys, userConfigKeys) returns
CallGenerateJsonPatch ==
  /\ call.fn = "generateJsonPatch" /\ ~call.done
  /\ call' = [call EXCEPT
                !.done = TRUE,
                !.result = generateJsonPatch(call.oldObj, call.newObj,
                                             call.readOnlyKeys, call.userConfigKeys)]
  /\ UNCHANGED <<desired, reconcile, kvToken, kvHash, kvCache, sigId, sigState,
                 sigDrifted, status, phase, remote, op, edits, drifts, last>>

PatchNext == CallGenerateJsonPatch

PatchSpec == PatchInit /\ [][PatchNext]_vars

(* ---------------------------------------------------------------------- *)
(* utils/hash.ts called on its own                                         *)
(* ---------------------------------------------------------------------- *)
\* Configurations with one or two keys in either order, whose values are
\* numbers or objects that spell the same mapping in either key order
HashVals ==
  { Num(1), Obj(<<Ent("a", Num(1))>>),
    Obj(<<Ent("a", Num(1)), Ent("b", Num(2))>>),
    Obj(<<Ent("b", Num(2)), Ent("a", Num(1))>>) }
HashConfigs ==
  {EmptyObj}
    \cup { Obj(<<Ent(k, v)>>) : k \in {"Name", "Size"}, v \in HashVals }
    \cup { Obj(<<Ent("Name", n), Ent("Size", z)>>) : n \in HashVals, z \in HashVals }
    \cup { Obj(<<Ent("Size", z), Ent("Name", n)>>) : n \in HashVals, z \in HashVals }
\* The two configurations are the call's first and second object
HashCalls ==
  { [fn |-> "calculateConfigHash", oldObj |-> c1, newObj |-> c2,
     readOnlyKeys |-> <<>>, userConfigKeys |-> <<>>, done |-> FALSE, result |-> <<>>] :
      c1 \in HashConfigs, c2 \in HashConfigs }

HashInit ==
  /\ Fresh
  /\ reconcile = TRUE
  /\ call \in HashCalls

\* calculateConfigHash(config) returns, for each of the two configurations
CallCalculateConfigHash ==
  /\ call.fn = "calculateConfigHash" /\ ~call.done
  /\ call' = [call EXCEPT
                !.done = TRUE,
                !.result = <<calculateConfigHash(call.oldObj),
                             calculateConfigHash(call.newObj)>>]
  /\ UNCHANGED <<desired, reconcile, kvToken, kvHash, kvCache, sigId, sigState,
                 sigDrifted, status, phase, remote, op, edits, drifts, last>>

HashNext == CallCalculateConfigHash

HashSpec == HashInit /\ [][HashNext]_vars

(* ---------------------------------------------------------------------- *)
(* utils/compare.ts called on its own                                      *)
(* ---------------------------------------------------------------------- *)
CompareVals ==
  { Num(1), Num(2), Null, Undefined,
    EmptyArr, Arr(<<Num(1)>>), Arr(<<Num(1), Num(2)>>), Arr(<<Num(2), Num(1)>>),
    EmptyObj, Obj(<<Ent("Name", Num(1))>>), Obj(<<Ent("Name", Num(2))>>),
    Obj(<<Ent("Name", Num(1)), Ent("Size", Num(2))>>),
    Obj(<<Ent("Size", Num(2)), Ent("Name", Num(1))>>),
    Obj(<<Ent("Name", Num(1)), Ent("Size", Num(1))>>),
    Obj(<<Ent("Name", Null)>>),
    Obj(<<Ent("Size", Obj(<<Ent("Name", Num(1))>>))>>),
    Obj(<<Ent("Size", Obj(<<Ent("Name", Num(2))>>))>>) }
\* The two compared values are the call's first and second object, the
\* excluded keys its key list
DeepEqualCalls ==
  { [fn |-> "deepEqual", oldObj |-> a, newObj |-> b,
     readOnlyKeys |-> ex, userConfigKeys |-> <<>>, done |-> FALSE, result |-> <<>>] :
      a \in CompareVals, b \in CompareVals, ex \in KeyLists }
DriftedFieldsCalls ==
  { [fn |-> "getDriftedFields", oldObj |-> a, newObj |-> b,
     readOnlyKeys |-> ex, userConfigKeys |-> <<>>, done |-> FALSE, result |-> <<>>] :
      a \in PatchObjects, b \in PatchObjects, ex \in KeyLists }

CompareInit ==
  /\ Fresh
  /\ reconcile = TRUE
  /\ call \in DeepEqualCalls \cup DriftedFieldsCalls

\* deepEqual(a, b, excludeKeys) returns
CallDeepEqual ==
  /\ call.fn = "deepEqual" /\ ~call.done
  /\ call' = [call EXCEPT
                !.done = TRUE,
                !.result = <<deepEqual(call.oldObj, call.newObj, call.readOnlyKeys)>>]
  /\ UNCHANGED <<desired, reconcile, kvToken, kvHash, kvCache, sigId, sigState,
                 sigDrifted, status, phase, remote, op, edits, drifts, last>>

\* getDriftedFields(actualState, lastKnownState, excludeKeys) returns
CallGetDriftedFields ==
  /\ call.fn = "getDriftedFields" /\ ~call.done
  /\ call' = [call EXCEPT
                !.done = TRUE,
                !.result = getDriftedFields(call.oldObj, call.newObj, call.readOnlyKeys)]
  /\ UNCHANGED <<desired, reconcile, kvToken, kvHash, kvCache, sigId, sigState,
                 sigDrifted, status, phase, remote, op, edits, drifts, last>>

CompareNext ==
  \/ CallDeepEqual
  \/ CallGetDriftedFields

CompareSpec == CompareInit /\ [][CompareNext]_vars

(* ---------------------------------------------------------------------- *)
(* getNonUpdatableProperties called concurrently for one type name         *)
(* ---------------------------------------------------------------------- *)
\* The number of calls in flight together
NumCallers == 3
Callers == 1..NumCallers

\* Each call is at its first await (kv.block.get), at its second
\* (client.send), at its third (kv.block.set), or has returned or thrown;
\* value, nonUpdatableProperties and result are the call's locals and what
\* it returned
ResolverCalls ==
  [fn |-> "getNonUpdatableProperties",
   pc |-> [c \in Callers |-> "get"],
   value |-> [c \in Callers |-> [has |-> FALSE, keys |-> <<>>]],
   props |-> [c \in Callers |-> <<>>],
   sent |-> [c \in Callers |-> FALSE],
   wrote |-> [c \in Callers |-> FALSE],
   done |-> FALSE,
   result |-> [c \in Callers |-> <<>>]]

ResolverInit ==
  /\ Fresh
  /\ reconcile = TRUE
  /\ call = ResolverCalls

\* kv.block.get(cacheKey) resolves; a stored value is returned at once
ResolverGet(c) ==
  /\ call.fn = "getNonUpdatableProperties" /\ call.pc[c] = "get"
  /\ call' = IF kvCache.has
             THEN [call EXCEPT !.pc[c] = "done", !.value[c] = kvCache,
                               !.result[c] = kvCache.keys]
             ELSE [call EXCEPT !.pc[c] = "send", !.value[c] = kvCache]
  /\ UNCHANGED <<desired, reconcile, kvToken, kvHash, kvCache, sigId, sigState,
                 sigDrifted, status, phase, remote, op, edits, drifts, last>>

\* The call that stores the value it read instead of the derived list
ResolverSetStale(c) ==
  /\ call.fn = "getNonUpdatableProperties" /\ call.pc[c] = "set"
  /\ kvCache' = [has |-> TRUE, keys |-> call.value[c].keys]
  /\ call' = [call EXCEPT !.pc[c] = "done", !.wrote[c] = TRUE,
                          !.result[c] = call.props[c]]
  /\ UNCHANGED <<desired, reconcile, kvToken, kvHash, sigId, sigState,
                 sigDrifted, status, phase, remote, op, edits, drifts, last>>

\* client.send(DescribeTypeCommand) resolves with the schema, from which the
\* list is derived, or the call throws (the request fails or no Schema)
ResolverSend(c) ==
  /\ call.fn = "getNonUpdatableProperties" /\ call.pc[c] = "send"
  /\ \E fetch \in {"ok", "fail"} :
       call' = IF fetch = "fail"
               THEN [call EXCEPT !.pc[c] = "threw", !.sent[c] = TRUE]
               ELSE [call EXCEPT !.pc[c] = "set", !.sent[c] = TRUE,
                                 !.props[c] = MapStrip(SchemaReadOnly) \o MapStrip(SchemaCreateOnly)]
  /\ UNCHANGED <<desired, reconcile, kvToken, kvHash, kvCache, sigId, sigState,
                 sigDrifted, status, phase, remote, op, edits, drifts, last>>

\* kv.block.set({ key: cacheKey, value: nonUpdatableProperties }) resolves and
\* the call returns the list
ResolverSet(c) ==
  /\ call.fn = "getNonUpdatableProperties" /\ call.pc[c] = "set"
  /\ kvCache' = [has |-> TRUE, keys |-> call.props[c]]
  /\ call' = [call EXCEPT !.pc[c] = "done", !.wrote[c] = TRUE,
                          !.result[c] = call.props[c]]
  /\ UNCHANGED <<desired, reconcile, kvToken, kvHash, sigId, sigState,
                 sigDrifted, status, phase, remote, op, edits, drifts, last>>

ResolverNext ==
  \/ \E c \in Callers : ResolverGet(c)
  \/ \E c \in Callers : ResolverSend(c)
  \/ \E c \in Callers : ResolverSet(c)

ResolverSpec == ResolverInit /\ [][ResolverNext]_vars

Next ==
  \/ ChangeConfig
  \/ RequestDrain
  \/ OpSucceed
  \/ OpFail
  \/ RemoteDrift
  \/ SyncCreate
  \/ SyncPoll
  \/ SyncCheck
  \/ DrainNothing
  \/ DrainPoll
  \/ DrainDelete

\* A handler invocation whose remote calls are all answered
Answered(A) == A /\ ~last'.fault

\* The scheduler invokes the handler of the current phase again after every
\* delay a handler asks for and after every fault, and a remote call that can
\* be answered does not throw for ever: an invocation whose calls are all
\* answered takes place whenever it stays possible.  An operation in flight
\* ends in SUCCESS or FAILED.  (An invocation that repeats the outcome of the
\* one before it leaves every variable as it is.)
Fairness ==
  /\ WF_vars(SyncCreate) /\ WF_vars(Answered(SyncCreate))
  /\ WF_vars(SyncPoll) /\ WF_vars(Answered(SyncPoll))
  /\ WF_vars(SyncCheck) /\ WF_vars(Answered(SyncCheck))
  /\ WF_vars(DrainNothing)
  /\ WF_vars(DrainPoll) /\ WF_vars(Answered(DrainPoll))
  /\ WF_vars(DrainDelete) /\ WF_vars(Answered(DrainDelete))
  /\ WF_vars(OpSucceed \/ OpFail)

FairSpec == Init /\ [][Next]_vars /\ Fairness

\* A block some way into its life: the caller asked for an empty Tags object
\* before the first onSync, the resource was created from it, Tags became an
\* empty list out of band while the creation was still being polled, and the
\* polling onSync stored what it fetched (ChangeConfig, SyncCreate,
\* RemoteDrift, SyncPoll from Init). Edits and out-of-band changes are
\* counted from here.
Established ==
  /\ desired = Obj(<<Ent("Name", Num(1)), Ent("Size", Num(1)), Ent("Tags", EmptyObj)>>)
  /\ kvToken = NoToken
  /\ kvHash = calculateConfigHash(desired)
  /\ kvCache = [has |-> FALSE, keys |-> <<>>]
  /\ sigId = TheId
  /\ sigState = SetKey(CreatedProps(desired), "Tags", EmptyArr)
  /\ sigDrifted = "false"
  /\ status = "ready"
  /\ phase = "live"
  /\ remote = [exists |-> TRUE, props |-> sigState]
  /\ op = [kind |-> "CREATE", status |-> "SUCCESS", token |-> 1, state |-> Undefined, patch |-> <<>>]
  /\ edits = 0
  /\ drifts = 0
  /\ last = Idle

\* The block from its construction, or already established
LateInit ==
  /\ Fresh \/ Established
  /\ reconcile \in BOOLEAN
  /\ call = NoCall

LateSpec == LateInit /\ [][Next]_vars

Spec == Init /\ [][Next]_vars

(* ---------------------------------------------------------------------- *)
(* Properties of onSync                                                    *)
(* ---------------------------------------------------------------------- *)
\* The invocation just completed was onSync, started from these persisted
\* fields
SyncFromNothing == last.handler = "sync" /\ last.pre.token = NoToken /\ last.pre.id = NoId
SyncFromToken == last.handler = "sync" /\ last.pre.token # NoToken
SyncFromIdentifier == last.handler = "sync" /\ last.pre.token = NoToken /\ last.pre.id # NoId
\* onSync got as far as having the fetched and parsed resource state
Fetched == last.threw \notin {"poll", "get", "parse"}
\* The persisted fields are as they were before the invocation
SameIdentifier == sigId = last.pre.id
SameState == sigState = last.pre.state
SameHash == kvHash = last.pre.hash
SameToken == kvToken = last.pre.token
NoMutatingCall == last.nCreate = 0 /\ last.nUpdate = 0 /\ last.nDelete = 0
\* The stored state onSync compares with: (state || {})
Baseline == IF IsUndef(last.pre.state) THEN EmptyObj ELSE last.pre.state
\* The top-level keys of either object, outside excl, whose values are not
\* deep-equal
DifferingKeys(a, b, excl) ==
  {k \in (Range(ObjectKeys(a)) \cup Range(ObjectKeys(b))) \ Range(excl) :
     ~deepEqual(Get(a, k), Get(b, k), <<>>)}

\* C1: onSync with no stored token and no identifier issues exactly one
\* create call carrying the current desired state; if the answer is not
\* FAILED it stores the returned token and the fingerprint of the submitted
\* state and returns in_progress with re-poll delay 10.
C1_CreateThenInProgress ==
  SyncFromNothing =>
    /\ last.nCreate = 1
    /\ last.createState = Stringify(last.pre.desired)
    /\ (~last.fault /\ last.respStatus # "FAILED") =>
         /\ kvToken = last.respToken
         /\ kvToken # NoToken
         /\ kvHash = calculateConfigHash(last.pre.desired)
         /\ last.newStatus = "in_progress"
         /\ last.delay = 10
C1_Witness ==
  /\ SyncFromNothing /\ ~last.fault
  /\ last.respStatus = "IN_PROGRESS" /\ last.newStatus = "in_progress"
  /\ kvHash # NoHash

\* C2: onSync with a stored token whose poll answers SUCCESS fetches the
\* resource, clears the token, stores the identifier the poll reported and
\* the fetched properties as the state signal, and returns ready with
\* drifted false and no re-poll delay.
C2_PollSuccessReady ==
  (SyncFromToken /\ last.threw # "poll" /\ last.respStatus = "SUCCESS") =>
    /\ last.nGet = 1
    /\ ~last.fault =>
         /\ kvToken = NoToken
         /\ sigId = last.pollId
         /\ remote.exists /\ sigState = remote.props
         /\ last.newStatus = "ready"
         /\ sigDrifted = "false"
         /\ last.delay = 0
C2_Witness ==
  /\ SyncFromToken /\ ~last.fault /\ last.respStatus = "SUCCESS"
  /\ last.pre.id = NoId /\ sigId = TheId
  /\ HasKey(sigState, "Arn")

\* C3: onSync with a stored token whose poll answers FAILED clears the
\* token and returns failed with a description that contains the name of the
\* failed operation; identifier, state and fingerprint stay as they were.
C3_PollFailed ==
  (SyncFromToken /\ ~last.fault /\ last.respStatus = "FAILED") =>
    /\ kvToken = NoToken
    /\ last.newStatus = "failed"
    /\ last.pollOp = op.kind
    /\ Includes(last.desc, last.pollOp)
    /\ SameIdentifier /\ SameState /\ SameHash
C3_Witness ==
  /\ SyncFromToken /\ ~last.fault /\ last.respStatus = "FAILED"
  /\ last.pollOp = "UPDATE" /\ last.newStatus = "failed"

\* C4: onSync with a stored token whose poll answers neither SUCCESS nor
\* FAILED stores the token the poll returned, returns in_progress with
\* re-poll delay 10, issues no create, update, delete or get call and leaves
\* identifier, state and fingerprint unchanged.
C4_PollPending ==
  (SyncFromToken /\ ~last.fault /\ last.respStatus \notin {"SUCCESS", "FAILED"}) =>
    /\ kvToken = last.respToken
    /\ last.newStatus = "in_progress"
    /\ last.delay = 10
    /\ NoMutatingCall /\ last.nGet = 0
    /\ SameIdentifier /\ SameState /\ SameHash
C4_Witness ==
  /\ SyncFromToken /\ ~last.fault /\ last.respStatus = "IN_PROGRESS"
  /\ kvToken # NoToken /\ kvToken # last.pre.token

\* C5: onSync with an identifier, no token, a stored fingerprint equal to
\* the fingerprint of the desired state and a fetched state identical to the
\* stored state returns ready, issues no create, update or delete call,
\* emits nothing and writes none of the persisted fields.
C5_InSyncNoEffect ==
  (/\ SyncFromIdentifier /\ ~last.fault
   /\ last.pre.hash = calculateConfigHash(last.pre.desired)
   /\ last.fetched = last.pre.state) =>
    /\ last.newStatus = "ready"
    /\ NoMutatingCall
    /\ last.events = <<>>
    /\ last.writes = {}
    /\ SameToken /\ SameHash /\ SameIdentifier /\ SameState
    /\ sigDrifted = last.pre.drifted
C5_Witness ==
  /\ SyncFromIdentifier /\ ~last.fault
  /\ last.pre.hash = calculateConfigHash(last.pre.desired)
  /\ last.fetched = last.pre.state
  /\ last.newStatus = "ready"

\* onSync's own view of the fetched state: its drift test, its fingerprint
\* test, and whether the caller lets it reconcile
DriftSeen == ~deepEqual(last.fetched, Baseline, last.keys)
ConfigChangeSeen == last.pre.hash # calculateConfigHash(last.pre.desired)
ReportOnly == ~last.pre.reconcile /\ DriftSeen /\ ~ConfigChangeSeen
\* The configurations the stored fingerprint may have been taken of
KnownConfigs == Configs \cup {InitialConfig}
\* The caller has given key k a new value since the fingerprint was stored
ValueEdited(k) ==
  \E c \in KnownConfigs :
     /\ last.pre.hash = calculateConfigHash(c)
     /\ HasKey(last.pre.desired, k)
     /\ Get(c, k) # Get(last.pre.desired, k)
\* The update call of this invocation was answered, and not with FAILED
UpdateAccepted == ~last.fault /\ last.respStatus # "FAILED"

\* C6: after the caller changes the value of a non-immutable key of the
\* desired state so that it differs from the remote value, the next onSync
\* (identifier, no token) sees a changed fingerprint, generates a patch with
\* a replace of that key by the new value, issues one update call with that
\* patch, and (the call accepted) stores the returned token and the new
\* fingerprint and returns in_progress with the re-poll delay.
C6_EditedValueReplaced ==
  \A k \in {"Size", "Tags"} :
    (/\ SyncFromIdentifier /\ Fetched
     /\ ValueEdited(k)
     /\ HasKey(last.fetched, k)
     /\ Get(last.fetched, k) # Get(last.pre.desired, k)) =>
      /\ ConfigChangeSeen
      /\ Includes(last.patch, PatchOp("replace", k, Get(last.pre.desired, k)))
      /\ last.nUpdate = 1
      /\ UpdateAccepted =>
           /\ kvToken = last.respToken
           /\ kvHash = calculateConfigHash(last.pre.desired)
           /\ last.newStatus = "in_progress"
           /\ last.delay = 10

\* C7: when onSync detects drift, the fingerprint is unchanged and
\* reconcileOnDrift is false, it emits one event with drifted true, returns
\* ready with a description listing the drifted field names, issues no update
\* call and leaves the stored state, fingerprint and token unchanged.
C7_DriftReportedOnly ==
  (SyncFromIdentifier /\ ~last.fault /\ ReportOnly) =>
    /\ last.events = <<Event(last.fetched, last.pre.id, TRUE)>>
    /\ last.newStatus = "ready"
    /\ Head(last.desc) = "Drifted ("
    /\ Range(last.desc) \ {"Drifted (", ", ", ")"}
         = DifferingKeys(last.fetched, Baseline, last.keys)
    /\ DifferingKeys(last.fetched, Baseline, last.keys) # {}
    /\ NoMutatingCall
    /\ sigDrifted = "true"
    /\ SameState /\ SameHash /\ SameToken
C7_Witness ==
  /\ SyncFromIdentifier /\ ~last.fault /\ ReportOnly
  /\ last.fetched # last.pre.state
  /\ Includes(last.desc, "Size")

DesiredKeyOff ==
  \E k \in Range(ObjectKeys(last.pre.desired)) \ Range(last.keys) :
     \/ ~HasKey(last.fetched, k)
     \/ ~patchDeepEqual(Get(last.fetched, k), Get(last.pre.desired, k))
C8_WitnessNoUpdate ==
  /\ SyncFromIdentifier /\ Fetched
  /\ last.pre.reconcile /\ ~ConfigChangeSeen /\ DriftSeen
  /\ ~DesiredKeyOff /\ last.nUpdate = 0

\* C9: in the reconcile branch (drift or a changed fingerprint, not
\* report-only), when the generated patch is empty onSync issues no update
\* call, stores the fingerprint of the desired state, replaces the stored
\* state by the fetched state and returns ready with drifted false.
C9_EmptyPatchRefreshes ==
  (/\ SyncFromIdentifier /\ ~last.fault
   /\ (DriftSeen \/ ConfigChangeSeen) /\ ~ReportOnly
   /\ ~DesiredKeyOff) =>
    /\ NoMutatingCall
    /\ last.patch = <<>>
    /\ kvHash = calculateConfigHash(last.pre.desired)
    /\ sigState = last.fetched
    /\ last.newStatus = "ready"
    /\ sigDrifted = "false"
C9_Witness ==
  /\ SyncFromIdentifier /\ ~last.fault
  /\ ConfigChangeSeen /\ ~ReportOnly /\ ~DesiredKeyOff
  /\ last.pre.hash # kvHash
  /\ last.newStatus = "ready"

\* C10: when onSync finds neither drift nor a changed fingerprint but the
\* fetched state differs from the stored state in immutable (excluded)
\* fields only, it refreshes the stored state with the fetched state, emits
\* a change event and returns ready.
C10_ImmutableChangeRefreshed ==
  (/\ SyncFromIdentifier /\ ~last.fault
   /\ ~DriftSeen /\ ~ConfigChangeSeen
   /\ \E k \in Range(last.keys) : Get(last.fetched, k) # Get(Baseline, k)) =>
    /\ sigState = last.fetched
    /\ Len(last.events) = 1
    /\ last.newStatus = "ready"

(* ---------------------------------------------------------------------- *)
(* Repeated invocations                                                    *)
(* ---------------------------------------------------------------------- *)
\* The invocation just completed was an onSync that ran to its return right
\* after an onSync that returned ready, with no change of the desired state,
\* the persisted fields or the remote system in between
SecondSync ==
  last.handler = "sync" /\ ~last.fault /\ last.pre.prior.handler = "sync"

\* C11 as claimed: an onSync that follows an onSync that returned ready, with
\* nothing changed in between, returns ready again and issues no create,
\* update or delete call.
C11_RepeatedSyncReady ==
  SecondSync => (last.newStatus = "ready" /\ NoMutatingCall)
\* C11 amended: an onSync that follows an onSync that returned ready from
\* the drift check (identifier present, no token), with nothing changed in
\* between, returns ready again and issues no create, update or delete call.
\* (After a ready from the polling branch the next onSync is the first to
\* compare fingerprints, and applies an edit made while the operation ran.)
C11_RepeatedCheckReady ==
  (SecondSync /\ last.pre.prior.branch = "check") =>
    (last.newStatus = "ready" /\ NoMutatingCall)
C11_Witness ==
  /\ SecondSync /\ last.pre.prior.branch = "check"
  /\ last.newStatus = "ready" /\ last.nGet = 1
  /\ last.pre.drifted = "true"
C11_WitnessInSync ==
  /\ SecondSync /\ last.pre.prior.branch = "check"
  /\ last.branch = "insync"

(* ---------------------------------------------------------------------- *)
(* Properties of onDrain                                                   *)
(* ---------------------------------------------------------------------- *)
DrainFromNothing == last.handler = "drain" /\ last.pre.token = NoToken /\ last.pre.id = NoId
DrainFromToken == last.handler = "drain" /\ last.pre.token # NoToken
DrainFromIdentifier == last.handler = "drain" /\ last.pre.token = NoToken /\ last.pre.id # NoId
NoRemoteCall == NoMutatingCall /\ last.nPoll = 0 /\ last.nGet = 0
NothingWritten ==
  /\ last.writes = {}
  /\ SameToken /\ SameHash /\ SameIdentifier /\ SameState
  /\ sigDrifted = last.pre.drifted

\* C12: onDrain with neither a token nor an identifier returns drained,
\* issues no remote call and writes no persisted field.
C12_DrainNothing ==
  DrainFromNothing =>
    (last.newStatus = "drained" /\ ~last.fault /\ NoRemoteCall /\ NothingWritten)
C12_Witness ==
  DrainFromNothing /\ status = "drained" /\ last.pre.hash # NoHash

\* C13: onDrain with an identifier and no token issues exactly one delete
\* call, for that identifier; answered FAILED it returns failed, answered
\* SUCCESS it returns drained at once, and answered otherwise it stores the
\* returned token and returns draining with re-poll delay 10.
C13_DrainDelete ==
  DrainFromIdentifier =>
    /\ last.nDelete = 1 /\ last.deleteId = last.pre.id
    /\ last.nCreate = 0 /\ last.nUpdate = 0 /\ last.nPoll = 0
    /\ ~last.fault =>
         /\ last.respStatus = "FAILED" => last.newStatus = "failed"
         /\ last.respStatus = "SUCCESS" => last.newStatus = "drained"
         /\ last.respStatus \notin {"FAILED", "SUCCESS"} =>
              /\ kvToken = last.respToken /\ kvToken # NoToken
              /\ last.newStatus = "draining"
              /\ last.delay = 10
C13_Witness ==
  /\ DrainFromIdentifier /\ ~last.fault
  /\ last.respStatus = "IN_PROGRESS" /\ last.newStatus = "draining"
C13_WitnessDrainedAtOnce ==
  /\ DrainFromIdentifier /\ ~last.fault
  /\ last.respStatus = "SUCCESS" /\ last.newStatus = "drained"

\* C14: onDrain with a token polls that token as the polling branch of
\* onSync does and issues no delete call: FAILED clears the token and yields
\* failed, SUCCESS yields drained, and any other status stores the token of
\* the response (a rotated one included) and yields draining with re-poll
\* delay 10.
C14_DrainPollsLikeSync ==
  (DrainFromToken /\ ~last.fault) =>
    /\ last.nPoll = 1 /\ NoMutatingCall
    /\ last.respStatus = "FAILED" =>
         (kvToken = NoToken /\ last.newStatus = "failed")
    /\ last.respStatus = "SUCCESS" => last.newStatus = "drained"
    /\ last.respStatus \notin {"FAILED", "SUCCESS"} =>
         /\ last.respToken # NoToken => kvToken = last.respToken
         /\ last.newStatus = "draining"
         /\ last.delay = 10

\* C15: whenever onDrain returns drained the remote resource does not exist,
\* also when onDrain is invoked while a create or update operation is still
\* in flight.
C15_DrainedMeansDeleted ==
  (last.handler = "drain" /\ last.newStatus = "drained") => ~remote.exists

\* C16: the operation token and the resource identifier are never both
\* absent while the last reported status is in_progress or draining.
C16_TokenOrIdentifierWhileBusy ==
  status \in {"in_progress", "draining"} => (kvToken # NoToken \/ sigId # NoId)

\* C17: once the resource identifier is assigned, no onSync or onDrain
\* invocation replaces it by a different or absent value.
C17_IdentifierStable ==
  (last.handler # "none" /\ last.pre.id # NoId) => sigId = last.pre.id
C17_Witness ==
  /\ SyncFromToken /\ last.pre.id # NoId
  /\ last.pollOp = "UPDATE" /\ last.newStatus = "ready"
  /\ "resourceIdentifier" \in last.writes

(* ---------------------------------------------------------------------- *)
(* Properties of the patches onSync sends                                  *)
(* ---------------------------------------------------------------------- *)
\* The keys the operations of a patch name
PatchKeysOf(patch) == {patch[i].path[2] : i \in 1..Len(patch)}
\* The invocation just completed has sent an update call
UpdateSent == last.handler = "sync" /\ last.nUpdate = 1

RECURSIVE JsonEqual(_, _)
JsonEqual(a, b) ==
  /\ a.kind = b.kind
  /\ a.num = b.num
  /\ Range(ObjectKeys(a)) = Range(ObjectKeys(b))
  /\ Len(a.ents) = Len(b.ents)
  /\ \A k \in Range(ObjectKeys(a)) : JsonEqual(Get(a, k), Get(b, k))

PatchDone == call.fn = "generateJsonPatch" /\ call.done
\* The operations of the result that name key k
OpsFor(k) == {i \in 1..Len(call.result) : call.result[i].path[2] = k}
OnlyOp(k, o) ==
  /\ Cardinality(OpsFor(k)) = 1
  /\ \A i \in OpsFor(k) : call.result[i] = o
\* The keys generateJsonPatch is to consider
Considered ==
  (Range(ObjectKeys(call.newObj)) \cup Range(call.userConfigKeys))
    \ Range(call.readOnlyKeys)
InObserved(k) == HasKey(call.oldObj, k)
InDesired(k) == HasKey(call.newObj, k)

\* C19: generateJsonPatch considers exactly the keys of the desired object
\* and the explicit keys, minus the immutable keys, and emits per key: add
\* when the key is in desired and not in observed, replace with the new value
\* when it is in both with values that are not equal, nothing when it is in
\* both with equal values; at most one operation per key.
C19_OperationPerKey ==
  PatchDone =>
    /\ PatchKeysOf(call.result) \subseteq Considered
    /\ \A k \in Considered :
         /\ Cardinality(OpsFor(k)) <= 1
         /\ (InDesired(k) /\ ~InObserved(k)) =>
              OnlyOp(k, PatchOp("add", k, Get(call.newObj, k)))
         /\ (InDesired(k) /\ InObserved(k)
               /\ ~JsonEqual(Get(call.oldObj, k), Get(call.newObj, k))) =>
              OnlyOp(k, PatchOp("replace", k, Get(call.newObj, k)))
         /\ (InDesired(k) /\ InObserved(k)
               /\ JsonEqual(Get(call.oldObj, k), Get(call.newObj, k))) =>
              OpsFor(k) = {}

\* C20: generateJsonPatch emits remove for a key only when the key is not in
\* desired, is in observed and is one of the explicit keys (and it does emit
\* it then, the key not being immutable); a key that is not in desired and
\* not among the explicit keys gets no operation, whatever observed holds.
C20_RemoveOnlyExplicit ==
  PatchDone =>
    /\ \A i \in 1..Len(call.result) :
         LET k == call.result[i].path[2]
         IN call.result[i].op = "remove" =>
              /\ ~InDesired(k) /\ InObserved(k)
              /\ Includes(call.userConfigKeys, k)
    /\ \A k \in Considered :
         (~InDesired(k) /\ InObserved(k) /\ Includes(call.userConfigKeys, k)) =>
           OnlyOp(k, PatchOp("remove", k, Undefined))
    /\ \A k \in Range(ObjectKeys(call.oldObj)) :
         (~InDesired(k) /\ ~Includes(call.userConfigKeys, k)) => OpsFor(k) = {}
C20_Witness ==
  /\ PatchDone
  /\ \E i \in 1..Len(call.result) : call.result[i].op = "remove"
  /\ \E k \in Range(ObjectKeys(call.oldObj)) :
       ~InDesired(k) /\ ~Includes(call.userConfigKeys, k)

\* The call is the one onSync's use of the generator has the shape of: no
\* immutable keys, the explicit keys those of the desired object
PlainPatchDone ==
  /\ PatchDone
  /\ call.readOnlyKeys = <<>>
  /\ call.userConfigKeys = ObjectKeys(call.newObj)

\* C21: applying generateJsonPatch(observed, desired, [], keys(desired)) to
\* observed yields an object that holds, for every key of desired, a value
\* equal to the desired one.
C21_PatchReachesDesired ==
  PlainPatchDone =>
    LET patched == ApplyPatch(call.oldObj, call.result)
    IN \A k \in Range(ObjectKeys(call.newObj)) :
         /\ HasKey(patched, k)
         /\ JsonEqual(Get(patched, k), Get(call.newObj, k))

(* ---------------------------------------------------------------------- *)
(* Properties of calculateConfigHash                                       *)
(* ---------------------------------------------------------------------- *)
HashDone == call.fn = "calculateConfigHash" /\ call.done

\* C22: two configurations that are the same mapping and differ only in the
\* order of keys, at whatever depth, have the same fingerprint.
C22_KeyOrderIrrelevant ==
  (HashDone /\ JsonEqual(call.oldObj, call.newObj)) =>
    call.result[1] = call.result[2]

(* ---------------------------------------------------------------------- *)
(* Properties of deepEqual and getDriftedFields                            *)
(* ---------------------------------------------------------------------- *)
\* Structural equality: values of different kind differ; numbers are equal
\* by value; sequences by length and elements in order; mappings by their
\* key sets and values once the excluded keys are removed
RECURSIVE Structural(_, _, _)
Structural(a, b, excludeKeys) ==
  IF a.kind # b.kind THEN FALSE
  ELSE IF a.kind = "number" THEN a.num = b.num
  ELSE IF a.kind = "array"
    THEN /\ Len(a.ents) = Len(b.ents)
         /\ \A i \in 1..Len(a.ents) : Structural(a.ents[i].v, b.ents[i].v, excludeKeys)
  ELSE IF a.kind = "object"
    THEN LET ka == Range(ObjectKeys(a)) \ Range(excludeKeys)
             kb == Range(ObjectKeys(b)) \ Range(excludeKeys)
         IN /\ ka = kb
            /\ \A k \in ka : Structural(Get(a, k), Get(b, k), excludeKeys)
  ELSE TRUE

DeepEqualDone == call.fn = "deepEqual" /\ call.done

\* C23: deepEqual(a, b, excludeKeys) is structural equality: numbers by value,
\* sequences by length and elements in order, mappings by key sets and values
\* after removing excludeKeys whatever the key order, null and absent equal
\* only to themselves, a sequence never equal to a mapping.
C23_DeepEqualStructural ==
  DeepEqualDone =>
    call.result[1] = Structural(call.oldObj, call.newObj, call.readOnlyKeys)

DriftedDone == call.fn = "getDriftedFields" /\ call.done

\* C24: getDriftedFields(a, b, excludeKeys) returns exactly the top-level keys
\* present in either object, not in excludeKeys, whose two values are not
\* equal; the two objects are left as they were.
C24_DriftedFieldsExact ==
  DriftedDone =>
    Range(call.result) =
      { k \in (Range(ObjectKeys(call.oldObj)) \cup Range(ObjectKeys(call.newObj)))
                \ Range(call.readOnlyKeys) :
          ~Structural(Get(call.oldObj, k), Get(call.newObj, k), <<>>) }

(* ---------------------------------------------------------------------- *)
(* Properties of the non-updatable property resolver                       *)
(* ---------------------------------------------------------------------- *)
SyncRan == last.handler = "sync"

\* C25: a resolve that fetched the schema stores the read-only and
\* create-only property names, marker stripped, under the type; every later
\* resolve returns that stored list and sends no DescribeType.
C25_CachedResolve ==
  /\ (SyncRan /\ last.describe = "ok") =>
       /\ kvCache = [has |-> TRUE, keys |-> <<"Arn", "Name">>]
       /\ last.keys = kvCache.keys
  /\ (SyncRan /\ last.pre.cache.has) =>
       /\ last.describe = "hit"
       /\ last.keys = last.pre.cache.keys
       /\ kvCache = last.pre.cache
  /\ kvCache.has => kvCache.keys = <<"Arn", "Name">>
C25_Witness ==
  /\ SyncRan /\ last.pre.cache.has
  /\ last.keys = <<"Arn", "Name">>

\* The branch the persisted token and identifier select
BranchTaken ==
  IF last.pre.token # NoToken THEN last.nPoll = 1 /\ last.nCreate = 0
  ELSE IF last.pre.id = NoId THEN last.nCreate = 1 /\ last.nPoll = 0 /\ last.nGet = 0
  ELSE last.nGet = 1 /\ last.nCreate = 0 /\ last.nPoll = 0

\* C26: when the schema fetch fails the sync goes on with no non-updatable
\* keys, takes the branch its token and identifier select, fails only where a
\* later call fails, and leaves the resolver cache without an entry.
C26_FetchFailureTolerated ==
  (SyncRan /\ last.describe = "fail") =>
    /\ last.keys = <<>>
    /\ BranchTaken
    /\ last.threw \in {"none", "create", "poll", "get", "parse", "update"}
    /\ last.newStatus = "failed" => last.respStatus = "FAILED"
    /\ ~kvCache.has
C26_Witness ==
  /\ SyncRan /\ last.describe = "fail"
  /\ last.newStatus = "ready"
  /\ last.nGet = 1 /\ last.nPoll = 0

(* ---------------------------------------------------------------------- *)
(* Properties of faults                                                    *)
(* ---------------------------------------------------------------------- *)
\* C27: every failure of a remote call made by onSync or onDrain is caught in
\* the handler and returned as a status with a description; no invocation
\* ends with an exception leaving the handler.
C27_NoUnhandledFault ==
  last.handler \in {"sync", "drain"} =>
    /\ ~last.fault
    /\ last.newStatus # "none"

\* onSync ended in the exception of JSON.parse on the fetched Properties
ParseFault(l) == l.handler = "sync" /\ l.fault /\ l.threw = "parse"

\* C28: an onSync whose fetched Properties cannot be parsed ends in a fault
\* and writes nothing: token, fingerprint, identifier and observed state are
\* as before it, and an onSync invoked next makes the same calls up to the
\* parse.
C28_ParseFaultWritesNothing ==
  [][ /\ ParseFault(last') =>
           /\ kvToken' = kvToken /\ kvHash' = kvHash
           /\ sigId' = sigId /\ sigState' = sigState
           /\ sigDrifted' = sigDrifted /\ status' = status
           /\ last'.writes = {} /\ last'.events = <<>>
           /\ last'.nCreate = 0 /\ last'.nUpdate = 0 /\ last'.nDelete = 0
      /\ (ParseFault(last) /\ last'.handler = "sync") =>
           /\ last'.nPoll = last.nPoll
           /\ last'.nCreate = 0
           /\ last'.pre.token = last.pre.token /\ last'.pre.hash = last.pre.hash
           /\ last'.pre.id = last.pre.id /\ last'.pre.state = last.pre.state
    ]_vars
C28_Witness ==
  /\ ParseFault(last)
  /\ last.nPoll = 1 /\ last.nGet = 1
  /\ kvToken # NoToken

(* ---------------------------------------------------------------------- *)
(* Progress under a fair scheduler                                         *)
(* ---------------------------------------------------------------------- *)
DrainReported ==
  /\ last.handler = "drain" /\ ~last.fault
  /\ last.newStatus \in {"drained", "failed"}

\* C29: once the teardown is requested, with onDrain invoked again after every
\* delay and every operation ending in SUCCESS or FAILED, an onDrain
\* eventually returns drained or failed, whatever state the block was in.
C29_DrainTerminates == (phase = "teardown" /\ status # "drained") ~> DrainReported

SyncReported ==
  /\ last.handler = "sync" /\ ~last.fault
  /\ last.newStatus \in {"ready", "failed"}

\* C30: with onSync invoked again after every delay and every operation
\* ending in SUCCESS or FAILED, an onSync that returned in_progress is
\* followed by one that returns ready or failed unless the teardown starts
\* first, and updates that succeed do not follow one another for ever.
C30_SyncTerminates ==
  /\ (phase = "live" /\ status = "in_progress") ~> (SyncReported \/ phase = "teardown")
  /\ <>[](~(SyncReported /\ last.pollOp = "UPDATE" /\ last.newStatus = "ready"))

(* ---------------------------------------------------------------------- *)
(* Further properties of onSync and onDrain                                *)
(* ---------------------------------------------------------------------- *)
\* onSync sent a create or an update and the ProgressEvent says FAILED
MutationRefused ==
  /\ last.handler = "sync" /\ ~last.fault
  /\ last.nCreate = 1 \/ last.nUpdate = 1
  /\ last.respStatus = "FAILED"

\* C31: when the create or the update that onSync sends is answered with
\* FAILED, onSync returns failed with no delay and a description, and token,
\* fingerprint, identifier and state are what they were before it.
C31_RefusedMutationKeepsAll ==
  MutationRefused =>
    /\ last.newStatus = "failed" /\ last.delay = 0
    /\ last.desc = IF last.nCreate = 1 THEN <<"Creation failed, see logs">>
                   ELSE <<"Update failed, see logs">>
    /\ SameToken /\ SameHash /\ SameIdentifier /\ SameState
    /\ last.writes = {} /\ last.events = <<>>
C31_Witness ==
  /\ MutationRefused
  /\ last.nUpdate = 1
  /\ last.pre.hash # calculateConfigHash(desired)

\* onSync polled, the operation had succeeded and the resource was fetched
PollSucceeded ==
  /\ last.handler = "sync" /\ ~last.fault
  /\ last.nPoll = 1 /\ last.respStatus = "SUCCESS"

\* C32: on a poll SUCCESS onSync emits one event, with the fetched state, the
\* identifier and drifted false, when the fetched state differs from the
\* state stored before once the non-updatable keys are left out, and no event
\* otherwise.
C32_EventIffStateChanged ==
  PollSucceeded =>
    IF Structural(last.fetched, Baseline, last.keys)
    THEN last.events = <<>>
    ELSE last.events = <<Event(last.fetched, last.pollId, FALSE)>>

\* onSync or onDrain polled the stored token and the operation had ended
TerminalObserved ==
  /\ last.handler \in {"sync", "drain"} /\ ~last.fault
  /\ last.nPoll = 1
  /\ last.respStatus \in {"SUCCESS", "FAILED"}

\* C33: after an onSync or onDrain that polled the stored token and was
\* answered SUCCESS or FAILED, the onDrain that returns drained included, no
\* request token is stored.
C33_TerminalStatusClearsToken ==
  TerminalObserved => kvToken = NoToken

\* onSync polled the stored token and the update it stands for had failed
UpdateObservedFailed ==
  /\ last.handler = "sync" /\ ~last.fault
  /\ last.nPoll = 1 /\ last.pollOp = "UPDATE" /\ last.respStatus = "FAILED"

\* The state fetched by invocation l differs from the desired state d under a
\* key of d that is not a non-updatable one
StillDiffers(l, d) ==
  \E k \in Range(ObjectKeys(d)) \ Range(l.keys) : ~Structural(Get(l.fetched, k), Get(d, k), <<>>)

\* C34: the onSync that follows an onSync that polled an update FAILED, with
\* the desired state unchanged, sends an update again when the state it
\* fetches still differs from the desired state under an updatable desired key.
C34_RetryAfterFailedUpdate ==
  [][(/\ UpdateObservedFailed
      /\ last'.handler = "sync" /\ ~last'.fault /\ last'.nGet = 1
      /\ desired' = desired
      /\ StillDiffers(last', desired'))
     => last'.nUpdate = 1]_vars

\* onSync returned ready having fetched the resource
ReadyWithFetch ==
  /\ last.handler = "sync" /\ ~last.fault
  /\ last.newStatus = "ready" /\ last.nGet = 1

\* C35: after an onSync that returns ready the stored drifted flag is true
\* only if the state fetched by that onSync differs, outside the
\* non-updatable keys, from the stored state it was compared with; a resource
\* that is back at its baseline leaves the flag false.
C35_DriftedOnlyWhileDiverging ==
  (ReadyWithFetch /\ sigDrifted = "true") => ~Structural(last.fetched, Baseline, last.keys)

(* ---------------------------------------------------------------------- *)
(* Properties of concurrent resolver calls                                 *)
(* ---------------------------------------------------------------------- *)
\* Call c has returned after finding no stored value
ReturnedAfterMiss(c) ==
  /\ call.fn = "getNonUpdatableProperties"
  /\ call.pc[c] = "done" /\ ~call.value[c].has

\* C36: when two calls for the same type name both find no stored value,
\* each sends DescribeType and each writes the cache; however their steps
\* interleave, once both have returned the cache holds the derived list and
\* both returned that list.
C36_ConcurrentResolversAgree ==
  \A c \in Callers, d \in Callers :
    (c # d /\ ReturnedAfterMiss(c) /\ ReturnedAfterMiss(d)) =>
      /\ call.sent[c] /\ call.sent[d] /\ call.wrote[c] /\ call.wrote[d]
      /\ kvCache = [has |-> TRUE, keys |-> nonUpdatableProperties]
      /\ call.result[c] = nonUpdatableProperties
      /\ call.result[d] = nonUpdatableProperties
C36_Witness ==
  /\ ReturnedAfterMiss(1) /\ ReturnedAfterMiss(2)
  /\ call.wrote[1] /\ call.wrote[2]

\* The create, update and delete calls invocation l sent
MutatingCalls(l) == l.nCreate + l.nUpdate + l.nDelete

\* C37: an onSync or onDrain sends at most one create, update or delete
\* call, sends none when it starts with a stored request token, and sends
\* none while an operation is in flight in the remote system.
C37_OneOperationInFlight ==
  [][last'.handler \in {"sync", "drain"} =>
       /\ MutatingCalls(last') <= 1
       /\ kvToken # NoToken => MutatingCalls(last') = 0
       /\ Busy => MutatingCalls(last') = 0]_vars

\* onSync reported a drift without reconciling it
ReportTaken ==
  /\ last.handler = "sync" /\ ~last.fault
  /\ last.branch = "report"

\* C38: whenever onSync reports a drift without reconciling, the fetched and
\* the stored state are not deepEqual outside the non-updatable keys and the
\* status description names the drifted fields, at least one.
C38_ReportedFieldsNonEmpty ==
  ReportTaken =>
    /\ ~deepEqual(last.fetched, Baseline, last.keys)
    /\ getDriftedFields(last.fetched, Baseline, last.keys) # <<>>
    /\ last.desc = DriftedDescription(getDriftedFields(last.fetched, Baseline, last.keys))
    /\ last.desc # DriftedDescription(<<>>)
C38_Witness ==
  /\ ReportTaken
  /\ HasKey(last.fetched, "Tags") /\ ~HasKey(Baseline, "Tags")

\* onSync ran the drift check for a desired state that is the one the stored
\* fingerprint was taken from with one key deleted, and the fetched state
\* agrees with the desired state under every key that is left
KeyDeleted(key) ==
  /\ SyncFromIdentifier /\ ~last.fault /\ last.nGet = 1
  /\ ~HasKey(last.pre.desired, key)
  /\ \E d \in Configs :
       /\ HasKey(d, key)
       /\ last.pre.hash = calculateConfigHash(d)
       /\ last.pre.desired = RemoveKey(d, key)
  /\ \A k \in Range(ObjectKeys(last.pre.desired)) :
       Structural(Get(last.fetched, k), Get(last.pre.desired, k), <<>>)

RepeatsReport ==
  /\ last'.branch = "report"
  /\ last'.events = <<Event(last'.fetched, sigId', TRUE)>>
  /\ last'.desc = last.desc
  /\ last'.fetched = last.fetched
  /\ sigState' = sigState /\ sigDrifted' = "true"

\* C40 as claimed: with reconcileOnDrift false and nothing changing, every
\* onSync that follows an onSync that reported a drift emits an event with
\* drifted true again and reports the same list of drifted fields.
C40_EveryRepeatReports ==
  [][(ReportTaken /\ last'.handler = "sync" /\ ~last'.fault) => RepeatsReport]_vars
\* C40 amended: with reconcileOnDrift false and nothing changing, every
\* onSync that follows an onSync that reported a drift and that resolves the
\* same non-updatable keys emits an event with drifted true again and reports
\* the same list of drifted fields; the stored state is not advanced.
C40_RepeatReportsUnderSameKeys ==
  [][(ReportTaken /\ last'.handler = "sync" /\ ~last'.fault /\ last'.keys = last.keys)
      => RepeatsReport]_vars
C40_Witness ==
  /\ ReportTaken /\ SecondSync
  /\ last.pre.prior.branch = "check" /\ last.pre.drifted = "true"
  /\ last.events = <<Event(last.fetched, sigId, TRUE)>>

====
